---- MODULE Spec2Model ----
(***************************************************************************)
(* Model of client/src/university/UniversityDashboard.jsx: one mounted     *)
(* instance of the UniversityDashboard component, its two fetch operations *)
(* (fetchUniversityData, fetchExamStats), the logout handler, the          *)
(* navigation handlers and the sidebar toggle, together with the parts of  *)
(* the environment the handlers act on: the two pending GET requests, the  *)
(* toast store, localStorage and the router's location.                    *)
(*                                                                         *)
(* Every handler is an operator from a state record to a state record, in  *)
(* the order of the statements of its code; an action applies one handler  *)
(* (one event-loop task) to the current state.                             *)
(*                                                                         *)
(* What the router renders after navigate(path) is decided outside this    *)
(* file: the model records the new location and keeps following this       *)
(* instance and its two requests, which are never cancelled.               *)
(***************************************************************************)
EXTENDS Integers, Sequences, FiniteSets, TLC

VARIABLES university, examStats, loading, sidebarOpen, effectRan,
          promise, toasts, localStorage, location, trace

vars == <<university, examStats, loading, sidebarOpen, effectRan,
          promise, toasts, localStorage, location, trace>>

(***************************************************************************)
(* Bounds of the model.                                                    *)
(***************************************************************************)
\* largest counter value a stats response carries (a counter is 0 or MaxStat)
MaxStat == 5
\* number of navigation clicks (sidebar items, quick actions, logout) explored
MaxClicks == 1

(***************************************************************************)
(* JavaScript values: null, undefined, strings, numbers and plain objects  *)
(* (an object is a function from the names of its own properties).         *)
(***************************************************************************)
Null == [t |-> "null"]
Undefined == [t |-> "undefined"]
Str(s) == [t |-> "string", s |-> s]
Num(n) == [t |-> "number", n |-> n]
Obj(o) == [t |-> "object", o |-> o]

\* JavaScript truthiness, as the conditional `university ? ... : ...` applies it.
Truthy(v) ==
    CASE v.t = "null" -> FALSE
      [] v.t = "undefined" -> FALSE
      [] v.t = "string" -> v.s # ""
      [] v.t = "number" -> v.n # 0
      [] OTHER -> TRUE

\* Property access v.f: the property's value, undefined when v has no such property.
Get(v, f) ==
    IF v.t = "object" /\ f \in DOMAIN v.o THEN Num(v.o[f]) ELSE Undefined

(***************************************************************************)
(* Responses the two endpoints can resolve with.                           *)
(***************************************************************************)
\* bodies of a successful GET /university/profile, falsy bodies included
ProfileBodies ==
    { Null, Str(""),
      Obj([universityName |-> "Alpha U", universityEmail |-> "a@x.edu"]) }

StatFields == {"totalExams", "studentsAssigned", "studentsAttended"}

\* bodies of a successful GET /university/exam/stats: objects that carry any
\* subset of the three counters
StatValues == {0, MaxStat}
StatsBodies ==
    { Obj(o) : o \in UNION { [F -> StatValues] : F \in SUBSET StatFields } }

\* useState(...) initial values
InitialUniversity == Null
InitialExamStats ==
    Obj([totalExams |-> 0, studentsAssigned |-> 0, studentsAttended |-> 0])

Keys == {"profile", "stats"}
Other(k) == IF k = "profile" THEN "stats" ELSE "profile"
Url(k) == IF k = "profile" THEN "/university/profile" ELSE "/university/exam/stats"
Fetcher(k) == IF k = "profile" THEN "fetchUniversityData" ELSE "fetchExamStats"

NotIssued == [status |-> "idle", value |-> Undefined]

(***************************************************************************)
(* The state as one record, and the assignment of a record to the next     *)
(* state.                                                                  *)
(***************************************************************************)
S ==
    [ university |-> university, examStats |-> examStats, loading |-> loading,
      sidebarOpen |-> sidebarOpen, effectRan |-> effectRan, promise |-> promise,
      toasts |-> toasts, localStorage |-> localStorage, location |-> location,
      trace |-> trace ]

Set(s) ==
    /\ university' = s.university
    /\ examStats' = s.examStats
    /\ loading' = s.loading
    /\ sidebarOpen' = s.sidebarOpen
    /\ effectRan' = s.effectRan
    /\ promise' = s.promise
    /\ toasts' = s.toasts
    /\ localStorage' = s.localStorage
    /\ location' = s.location
    /\ trace' = s.trace

\* One externally visible effect, with the caller that produced it and whether
\* the session token was stored when it happened.
Ev(s, op, ev, arg) ==
    [op |-> op, ev |-> ev, arg |-> arg, token |-> "token" \in DOMAIN s.localStorage]

Log(s, op, ev, arg) == [s EXCEPT !.trace = Append(@, Ev(s, op, ev, arg))]

(***************************************************************************)
(* The collaborators the handlers call: React state setters, the toast     *)
(* store of react-hot-toast, the HTTP client, localStorage, the router.    *)
(***************************************************************************)
setUniversity(s, v) == [s EXCEPT !.university = v]
setExamStats(s, v) == [s EXCEPT !.examStats = v]
setLoading(s, v) == [s EXCEPT !.loading = v]
setSidebarOpen(s, v) == [s EXCEPT !.sidebarOpen = v]

\* toast.loading / toast.success / toast.error: one more visible toast
toast_show(s, op, type, message) ==
    Log([s EXCEPT !.toasts = Append(@, [type |-> type, message |-> message])],
        op, "toast." \o type, message)

\* variant: only the caller's own loading toast is dismissed (toast.dismiss(id))
toast_dismiss_Own(s, op) ==
    Log([s EXCEPT !.toasts =
            SelectSeq(@, LAMBDA x :
                ~(x.type = "loading" /\
                  x.message = (IF op = "fetchUniversityData"
                               THEN "Fetching university data..."
                               ELSE "Fetching exam statistics...")))],
        op, "toast.dismiss", "")

\* toast.dismiss() without an id: every visible toast is dismissed
toast_dismiss(s, op) == Log([s EXCEPT !.toasts = <<>>], op, "toast.dismiss", "")

\* axiosInstance.get(url): the request is issued and its promise is pending
axios_get(s, op, k) ==
    Log([s EXCEPT !.promise[k] = [status |-> "pending", value |-> Undefined]],
        op, "GET", Url(k))

\* the request of endpoint k settles
settle(s, k, status, value) ==
    [s EXCEPT !.promise[k] = [status |-> status, value |-> value]]

\* localStorage.removeItem(key)
removeItem(s, op, key) ==
    Log([s EXCEPT !.localStorage = [x \in DOMAIN @ \ {key} |-> @[x]]],
        op, "removeItem", key)

\* navigate(path)
navigate(s, op, path) == Log([s EXCEPT !.location = path], op, "navigate", path)

(***************************************************************************)
(* fetchUniversityData: the statements up to the await, the rest of the    *)
(* try block, the catch block, the finally block.                          *)
(***************************************************************************)
fetchUniversityData_start(s) ==
    axios_get(
        toast_show(setLoading(s, TRUE),
                   "fetchUniversityData", "loading", "Fetching university data..."),
        "fetchUniversityData", "profile")

fetchUniversityData_try(s, data) ==
    toast_show(
        toast_dismiss(setUniversity(s, data), "fetchUniversityData"),
        "fetchUniversityData", "success", "University data loaded!")

\* variant: the catch block without the dismissal
fetchUniversityData_catch_NoDismiss(s) ==
    toast_show(s, "fetchUniversityData", "error", "Failed to load university data")

fetchUniversityData_catch(s) ==
    toast_show(
        toast_dismiss(s, "fetchUniversityData"),
        "fetchUniversityData", "error", "Failed to load university data")

\* variant: loading is cleared only when the other request is no longer pending
fetchUniversityData_finally_Joined(s) ==
    IF s.promise["stats"].status = "pending" THEN s ELSE setLoading(s, FALSE)

fetchUniversityData_finally(s) == setLoading(s, FALSE)

(***************************************************************************)
(* fetchExamStats, in the same four parts.                                 *)
(***************************************************************************)
fetchExamStats_start(s) ==
    axios_get(
        toast_show(setLoading(s, TRUE),
                   "fetchExamStats", "loading", "Fetching exam statistics..."),
        "fetchExamStats", "stats")

\* variant: the success toast is shown before the dismissal
fetchExamStats_try_SuccessFirst(s, data) ==
    toast_dismiss(
        toast_show(setExamStats(s, data),
                   "fetchExamStats", "success", "Exam stats loaded!"),
        "fetchExamStats")

\* variant: the response is merged into the previous examStats ({...prev, ...data})
fetchExamStats_try_Merge(s, data) ==
    toast_show(
        toast_dismiss(
            setExamStats(s,
                Obj([f \in DOMAIN s.examStats.o \cup DOMAIN data.o |->
                        IF f \in DOMAIN data.o THEN data.o[f] ELSE s.examStats.o[f]])),
            "fetchExamStats"),
        "fetchExamStats", "success", "Exam stats loaded!")

\* variant: the response is stored with the other fetcher's setter
fetchExamStats_try_WrongSetter(s, data) ==
    toast_show(
        toast_dismiss(setUniversity(s, data), "fetchExamStats"),
        "fetchExamStats", "success", "Exam stats loaded!")

fetchExamStats_try(s, data) ==
    toast_show(
        toast_dismiss(setExamStats(s, data), "fetchExamStats"),
        "fetchExamStats", "success", "Exam stats loaded!")

\* variant: the catch block issues the request again
fetchExamStats_catch_Retry(s) ==
    axios_get(
        toast_show(
            toast_dismiss(s, "fetchExamStats"),
            "fetchExamStats", "error", "Failed to load exam stats"),
        "fetchExamStats", "stats")

fetchExamStats_catch(s) ==
    toast_show(
        toast_dismiss(s, "fetchExamStats"),
        "fetchExamStats", "error", "Failed to load exam stats")

\* variant: setLoading(false) at the end of the try block instead of in finally
fetchExamStats_finally_OnSuccess(s) ==
    IF s.promise["stats"].status = "fulfilled" THEN setLoading(s, FALSE) ELSE s

fetchExamStats_finally(s) == setLoading(s, FALSE)

\* useEffect(() => { fetchUniversityData(); fetchExamStats(); }, []): both
\* fetchers run to their await, one after the other, in the same task.
mountEffect(s) ==
    fetchExamStats_start(fetchUniversityData_start([s EXCEPT !.effectRan = TRUE]))

\* variant: the navigation comes first, the token is removed last
handleLogout_NavigateFirst(s) ==
    removeItem(
        toast_show(navigate(s, "handleLogout", "/login"),
                   "handleLogout", "success", "Logged out successfully!"),
        "handleLogout", "token")

handleLogout(s) ==
    navigate(
        toast_show(removeItem(s, "handleLogout", "token"),
                   "handleLogout", "success", "Logged out successfully!"),
        "handleLogout", "/login")

\* paths of the four sidebar items
sidebarItems ==
    { "/university/dashboard", "/university/exams",
      "/university/students", "/university/profile" }

(***************************************************************************)
(* What the component renders from its state.                              *)
(***************************************************************************)
\* the profile card shows "Loading university data..." instead of the profile
PlaceholderShown == ~Truthy(university)

\* chartData.datasets[0].data, in the order of chartData.labels
chartLabels == <<"Total Exams", "Students Assigned", "Students Attended">>
chartData ==
    << Get(examStats, "totalExams"), Get(examStats, "studentsAssigned"),
       Get(examStats, "studentsAttended") >>

(***************************************************************************)
(* Initial state: the component has rendered with its useState defaults,   *)
(* its effect has not run yet; the signed-in user's token is stored.       *)
(***************************************************************************)
Init ==
    /\ university = InitialUniversity
    /\ examStats = InitialExamStats
    /\ loading = FALSE
    /\ sidebarOpen = FALSE
    /\ effectRan = FALSE
    /\ promise = [k \in Keys |-> NotIssued]
    /\ toasts = <<>>
    /\ localStorage = [x \in {"token"} |-> "jwt"]
    /\ location = "/university/dashboard"
    /\ trace = <<>>

\* number of navigate calls so far
Clicks == Cardinality({ i \in 1..Len(trace) : trace[i].ev = "navigate" })

(***************************************************************************)
(* Actions.                                                                *)
(***************************************************************************)
\* the mount effect runs, once
Mount ==
    /\ ~effectRan
    /\ Set(mountEffect(S))

\* GET /university/profile resolves with some body; the rest of
\* fetchUniversityData runs
ProfileFulfilled ==
    /\ promise["profile"].status = "pending"
    /\ \E data \in ProfileBodies :
          Set(fetchUniversityData_finally(
                  fetchUniversityData_try(settle(S, "profile", "fulfilled", data), data)))

\* GET /university/profile rejects
ProfileRejected ==
    /\ promise["profile"].status = "pending"
    /\ Set(fetchUniversityData_finally(
               fetchUniversityData_catch(settle(S, "profile", "rejected", Undefined))))

StatsFulfilled ==
    /\ promise["stats"].status = "pending"
    /\ \E data \in StatsBodies :
          Set(fetchExamStats_finally(
                  fetchExamStats_try(settle(S, "stats", "fulfilled", data), data)))

StatsRejected ==
    /\ promise["stats"].status = "pending"
    /\ Set(fetchExamStats_finally(
               fetchExamStats_catch(settle(S, "stats", "rejected", Undefined))))

\* the Logout entry of the sidebar is clicked
Logout ==
    /\ effectRan
    /\ Clicks < MaxClicks
    /\ Set(handleLogout(S))

\* a sidebar item is clicked
SidebarNavigate ==
    /\ effectRan
    /\ Clicks < MaxClicks
    /\ \E path \in sidebarItems : Set(navigate(S, "onClick", path))

\* the Edit Profile button, rendered only when university is truthy
EditProfile ==
    /\ effectRan
    /\ Clicks < MaxClicks
    /\ ~PlaceholderShown
    /\ Set(navigate(S, "onClick", "/university/profile"))

\* the quick actions Manage Exams and View Students
QuickAction ==
    /\ effectRan
    /\ Clicks < MaxClicks
    /\ \E path \in {"/university/exams", "/university/students"} :
          Set(navigate(S, "onClick", path))

\* the mobile sidebar toggle
ToggleSidebar ==
    /\ effectRan
    /\ Set(setSidebarOpen(S, ~sidebarOpen))

\* the Toaster removes a success or error toast when its duration has passed
\* (loading toasts do not expire)
ToastExpire ==
    \E i \in 1..Len(toasts) :
        /\ toasts[i].type # "loading"
        /\ toasts' = SubSeq(toasts, 1, i - 1) \o SubSeq(toasts, i + 1, Len(toasts))
        /\ UNCHANGED <<university, examStats, loading, sidebarOpen, effectRan,
                       promise, localStorage, location, trace>>

Next ==
    \/ Mount
    \/ ProfileFulfilled
    \/ ProfileRejected
    \/ StatsFulfilled
    \/ StatsRejected
    \/ Logout
    \/ SidebarNavigate
    \/ EditProfile
    \/ QuickAction
    \/ ToggleSidebar
    \/ ToastExpire

Spec == Init /\ [][Next]_vars

\* Every issued request settles, and the mount effect runs.
FairSpec ==
    /\ Spec
    /\ WF_vars(Mount)
    /\ WF_vars(ProfileFulfilled \/ ProfileRejected)
    /\ WF_vars(StatsFulfilled \/ StatsRejected)

(***************************************************************************)
(* Vocabulary of the properties.                                           *)
(***************************************************************************)
Settled(k) == promise[k].status \in {"fulfilled", "rejected"}
InFlight(k) == promise[k].status = "pending"
BothSettled == \A k \in Keys : Settled(k)

\* the events one caller produced, in order, and their names
EventsOf(op) == SelectSeq(trace, LAMBDA e : e.op = op)
Names(events) == [i \in 1..Len(events) |-> events[i].ev]
CountEv(events, ev) == Cardinality({ i \in 1..Len(events) : events[i].ev = ev })

\* the events the current step appends to the trace
NewEvents == SubSeq(trace', Len(trace) + 1, Len(trace'))

LoadingVisible(ts) == \E i \in 1..Len(ts) : ts[i].type = "loading"

\* the notification sequence of the fetch of endpoint k, by the state of its request
ExpectedEvents(k) ==
    CASE promise[k].status = "idle" -> <<>>
      [] promise[k].status = "pending" -> <<"toast.loading", "GET">>
      [] promise[k].status = "fulfilled" ->
            <<"toast.loading", "GET", "toast.dismiss", "toast.success">>
      [] promise[k].status = "rejected" ->
            <<"toast.loading", "GET", "toast.dismiss", "toast.error">>

\* C1: each fetch emits, in this order, one loading notification, then its
\* request, and once the request has settled one dismissal of all toasts and
\* then exactly one result notification, success iff the request succeeded.
C1_NotificationOrder ==
    \A k \in Keys : Names(EventsOf(Fetcher(k))) = ExpectedEvents(k)

\* one request succeeded, the other failed, both sequences are complete
C1_Witness ==
    /\ promise["profile"].status = "fulfilled"
    /\ promise["stats"].status = "rejected"
    /\ Len(EventsOf("fetchUniversityData")) = 4
    /\ Len(EventsOf("fetchExamStats")) = 4

\* the step in which the request of endpoint k is rejected and its fetcher handles it
Rejects(k) == promise[k].status = "pending" /\ promise'[k].status = "rejected"
\* the step in which the request of endpoint k settles either way
Settles(k) == promise[k].status = "pending" /\ promise'[k].status # "pending"

\* C2: in the step that handles a rejected request, the slice the fetch owns
\* keeps its value, the fetch emits exactly one error notification (and it is
\* the only one it has emitted), and afterwards no loading notification is
\* visible, whatever the state of the other fetch.
C2_FailureHandling ==
    [][ \A k \in Keys :
          Rejects(k) =>
            /\ (k = "profile" => university' = university)
            /\ (k = "stats" => examStats' = examStats)
            /\ CountEv(SelectSeq(NewEvents, LAMBDA e : e.op = Fetcher(k)), "toast.error") = 1
            /\ CountEv(SelectSeq(trace', LAMBDA e : e.op = Fetcher(k)), "toast.error") = 1
            /\ CountEv(SelectSeq(trace', LAMBDA e : e.op = Fetcher(k)), "toast.success") = 0
            /\ ~LoadingVisible(toasts') ]_vars

\* the profile request has failed while the stats request is still pending: the
\* error toast is visible, the stats fetch's loading toast is not
C2_Witness ==
    /\ promise["profile"].status = "rejected"
    /\ InFlight("stats")
    /\ university = InitialUniversity
    /\ toasts = << [type |-> "error", message |-> "Failed to load university data"] >>

\* C3: after a successful profile response, university equals the response
\* body and the profile card no longer shows the placeholder, for every
\* response body, falsy bodies included.
C3_ProfileSuccess ==
    promise["profile"].status = "fulfilled" =>
        /\ university = promise["profile"].value
        /\ ~PlaceholderShown

\* the chart values a stats response body stands for: a counter the body
\* carries, undefined for a counter it omits
FieldOf(body, f) == IF f \in DOMAIN body.o THEN Num(body.o[f]) ELSE Undefined

\* C4: the chart's values, in the order Total Exams, Students Assigned,
\* Students Attended, are the three fields of the successful stats response
\* (undefined for a field it omits), and 0, 0, 0 when no stats fetch succeeded.
C4_ChartValues ==
    chartData =
          IF promise["stats"].status = "fulfilled"
          THEN << FieldOf(promise["stats"].value, "totalExams"),
                  FieldOf(promise["stats"].value, "studentsAssigned"),
                  FieldOf(promise["stats"].value, "studentsAttended") >>
          ELSE << Num(0), Num(0), Num(0) >>

\* a response that carries two counters and omits studentsAssigned
C4_Witness ==
    /\ promise["stats"].status = "fulfilled"
    /\ chartData = << Num(MaxStat), Undefined, Num(0) >>

\* the step in which handleLogout runs
LogsOut == Len(trace') > Len(trace) /\ trace'[Len(trace')].op = "handleLogout"

\* C5: a logout removes the token, then emits exactly one success
\* notification, then navigates to /login, in that order and whatever the
\* fetches are doing; the token is absent when the navigation happens.
C5_LogoutOrder ==
    [][ LogsOut =>
          /\ Names(NewEvents) = <<"removeItem", "toast.success", "navigate">>
          /\ NewEvents[1].arg = "token"
          /\ NewEvents[2].arg = "Logged out successfully!"
          /\ NewEvents[3].arg = "/login"
          /\ ~NewEvents[3].token
          /\ "token" \notin DOMAIN localStorage'
          /\ location' = "/login"
          /\ UNCHANGED <<university, examStats, loading, promise>> ]_vars

\* a logout while both requests are pending
C5_Witness ==
    /\ InFlight("profile") /\ InFlight("stats")
    /\ Len(trace) > 0 /\ trace[Len(trace)].op = "handleLogout"
    /\ trace[Len(trace)].ev = "navigate"
    /\ "token" \notin DOMAIN localStorage
    /\ location = "/login"

\* number of GET requests issued to the endpoint k so far
RequestCount(k) ==
    Cardinality({ i \in 1..Len(trace) : trace[i].ev = "GET" /\ trace[i].arg = Url(k) })

\* C6: each endpoint has received exactly one GET request once the mount
\* effect has run (none before), no later step issues another, and a fetch
\* that has failed stays failed.
C6_SingleRequest ==
    /\ [](\A k \in Keys : RequestCount(k) = IF effectRan THEN 1 ELSE 0)
    /\ [][ \A k \in Keys :
             /\ (effectRan => ~(\E i \in 1..Len(NewEvents) : NewEvents[i].ev = "GET"))
             /\ (promise[k].status = "rejected" => promise'[k].status = "rejected") ]_vars

\* after a failed fetch, a sidebar toggle and a navigation click, still one
\* request per endpoint
C6_Witness ==
    /\ promise["profile"].status = "rejected"
    /\ promise["stats"].status = "fulfilled"
    /\ sidebarOpen
    /\ Clicks > 0
    /\ \A k \in Keys : RequestCount(k) = 1

\* C7: when one fetch settles while the other is still pending, loading is
\* false right after that step although the other request is still in flight.
C7_SharedLoadingFlag ==
    [][ \A k \in Keys :
          (Settles(k) /\ InFlight(Other(k))) =>
              (loading' = FALSE /\ promise'[Other(k)].status = "pending") ]_vars

\* loading is false while a request is in flight
C7_Witness ==
    /\ loading = FALSE
    /\ \E k \in Keys : Settled(k) /\ InFlight(Other(k))

\* C8: the step that settles a fetch leaves loading false, whether the request
\* succeeded or failed; and if both requests settle, the component ends, for
\* every completion order and every combination of outcomes, with loading
\* false and no request in flight, and stays so.
C8_EventuallyIdle ==
    /\ [][ \A k \in Keys : Settles(k) => loading' = FALSE ]_vars
    /\ <>[](effectRan /\ BothSettled /\ loading = FALSE)

\* both requests have failed and loading is false
C8_Witness ==
    /\ promise["profile"].status = "rejected"
    /\ promise["stats"].status = "rejected"
    /\ loading = FALSE

\* the value a slice has once its fetch has settled: the response body if the
\* request succeeded, the useState default if it failed
ExpectedUniversity ==
    IF promise["profile"].status = "fulfilled"
    THEN promise["profile"].value ELSE InitialUniversity
ExpectedExamStats ==
    IF promise["stats"].status = "fulfilled"
    THEN promise["stats"].value ELSE InitialExamStats

\* C9: the step that settles the profile fetch leaves examStats alone and the
\* step that settles the stats fetch leaves university alone; once both have
\* settled, university and examStats are what each fetch's own outcome and
\* response give, whichever settled first.
C9_DisjointSlices ==
    /\ [](BothSettled => (university = ExpectedUniversity /\ examStats = ExpectedExamStats))
    /\ [][ /\ (Settles("profile") => examStats' = examStats)
           /\ (Settles("stats") => university' = university) ]_vars

\* the endpoint whose fetch settled last: the caller of the last dismissal
Dismissals == SelectSeq(trace, LAMBDA e : e.ev = "toast.dismiss")
LastSettled ==
    IF Dismissals[Len(Dismissals)].op = "fetchUniversityData" THEN "profile" ELSE "stats"

\* both succeeded with non-default bodies, the stats fetch first
C9_Witness ==
    /\ BothSettled
    /\ Truthy(university)
    /\ examStats # InitialExamStats
    /\ university = promise["profile"].value
    /\ examStats = promise["stats"].value
    /\ LastSettled = "profile"

\* the result notification of the fetch of endpoint k, given how its request settled
ResultToast(k, status) ==
    CASE k = "profile" /\ status = "fulfilled" ->
            [type |-> "success", message |-> "University data loaded!"]
      [] k = "profile" /\ status # "fulfilled" ->
            [type |-> "error", message |-> "Failed to load university data"]
      [] k = "stats" /\ status = "fulfilled" ->
            [type |-> "success", message |-> "Exam stats loaded!"]
      [] OTHER ->
            [type |-> "error", message |-> "Failed to load exam stats"]

LogoutToast == [type |-> "success", message |-> "Logged out successfully!"]

\* C10 as stated: after both fetches have settled exactly one notification is
\* visible, the result notification of the fetch that settled last.
C10_ExactlyOneVisible ==
    BothSettled =>
        toasts = << ResultToast(LastSettled, promise[LastSettled].status) >>

\* C10 as amended: right after the second fetch settles exactly one
\* notification is visible, the result notification of that fetch; from then
\* on the result notification of the fetch that settled first is never
\* visible, and a visible notification is either the result notification of
\* the fetch that settled last (at most once) or a logout notification.
C10_LastResultOnly ==
    /\ [](BothSettled =>
            /\ \A i \in 1..Len(toasts) :
                  /\ toasts[i] \in { ResultToast(LastSettled, promise[LastSettled].status),
                                     LogoutToast }
                  /\ toasts[i] # ResultToast(Other(LastSettled),
                                             promise[Other(LastSettled)].status)
            /\ Cardinality({ i \in 1..Len(toasts) :
                   toasts[i] = ResultToast(LastSettled, promise[LastSettled].status) }) <= 1)
    /\ [][ \A k \in Keys :
             (Settles(k) /\ Settled(Other(k))) =>
                 toasts' = << ResultToast(k, promise'[k].status) >> ]_vars

\* the fetch that settled first failed, and its error notification is gone:
\* only the later fetch's success notification is visible
C10_Witness ==
    /\ BothSettled
    /\ LastSettled = "stats"
    /\ promise["profile"].status = "rejected"
    /\ toasts = << [type |-> "success", message |-> "Exam stats loaded!"] >>

====
